---- MODULE Spec2Model ----
(***************************************************************************)
(* Model of the gazetteer index (HashMapSearchTree) and of                 *)
(* SearchTree::search, src/src/tree.rs, with the tokenizer                 *)
(* split_with_indices of src/src/util.rs.                                  *)
(*                                                                         *)
(* A string is a sequence of one-character strings; a Vec is a sequence;   *)
(* a HashSet is a set; a HashMap is a function; Option<T> is <<>> (None)   *)
(* or <<v>> (Some(v)).  Rust tuples are TLA+ tuples, so field .0 is [1].   *)
(***************************************************************************)
EXTENDS Integers, Sequences, FiniteSets, TLC

VARIABLES tree, lines, op

vars == <<tree, lines, op>>

----------------------------------------------------------------------------
(* Bounds of the model *)

\* rows handed to load_lines in one behaviour
MaxLines == 2

\* largest explicit max_len passed to search
MaxWindow == 2

----------------------------------------------------------------------------
(* Inputs *)

T_a == <<"a">>
T_aa == <<"a", " ", "a">>
T_Ba == <<"B", ".", "a">>
T_aaa == <<"a", " ", "a", " ", "a">>
T_dot == <<".">>
T_a6 == <<"a", " ", "a", " ", "a", " ", "a", " ", "a", " ", "a">>

\* (search term, label) pairs of a corpus; T_dot has no token
Corpus == {<<T_a, "u1">>, <<T_aa, "u2">>, <<T_Ba, "u3">>, <<T_aaa, "u4">>, <<T_dot, "u5">>}

\* the texts searched
Texts == {c[1] : c \in Corpus}

\* the match types load() hands to load_lines (tree.rs:131,155,188)
MatchTypes == {"Full", "Abbreviated", "NGram"}

\* the (taxon, uri, match_type) rows handed to load_lines
Rows == {<<c[1], c[2], t>> : c \in Corpus, t \in MatchTypes}

None == <<>>

Some(v) == <<v>>

\* Option::unwrap_or
unwrap_or(o, d) == IF o = None THEN d ELSE o[1]

----------------------------------------------------------------------------
(* util.rs: tokenizer *)

SPLIT_PATTERN == {" ", ".", ",", ":", ";", "-", "_", "\"", "(", ")"}

\* str::to_lowercase on the model's alphabet
to_lowercase(s) ==
    [i \in 1..Len(s) |-> IF s[i] = "A" THEN "a" ELSE IF s[i] = "B" THEN "b" ELSE s[i]]

\* acc is the pair (slices, offsets); slice = s[last..idx]
_push_slice(acc, slice, last, idx) ==
    IF Len(slice) > 1 \/ (Len(slice) = 1 /\ slice[1] \notin SPLIT_PATTERN)
    THEN <<Append(acc[1], slice), Append(acc[2], <<last, idx + 1>>)>>
    ELSE acc

RECURSIVE split_loop(_, _, _, _)
\* the for loop over match_indices: idx runs over the 0-based positions of s
split_loop(s, idx, last, acc) ==
    IF idx = Len(s)
    THEN IF last < Len(s)
         THEN _push_slice(acc, SubSeq(s, last + 1, Len(s)), last, Len(s))
         ELSE acc
    ELSE IF s[idx + 1] \in SPLIT_PATTERN
         THEN split_loop(s, idx + 1, idx + 1,
                         _push_slice(acc, SubSeq(s, last + 1, idx), last, idx))
         ELSE split_loop(s, idx + 1, last, acc)

split_with_indices(s) == split_loop(s, 0, 0, <<<<>>, <<>>>>)

----------------------------------------------------------------------------
(* tree.rs: Match and HashMapSearchTree *)

Match(match_type, match_string, match_uri) ==
    [match_type |-> match_type, match_string |-> match_string, match_uri |-> match_uri]

Match_full(match_string, match_uri) == Match("Full", match_string, match_uri)

\* HashMapSearchTree::default, also HashMapSearchTree::child
default == [matches |-> {}, children |-> <<>>]

from(match_string, match_uri) ==
    [matches |-> {Match_full(match_string, match_uri)}, children |-> <<>>]

\* the Match stored in a leaf that insert creates
new_leaf(match_string, match_uri, match_type) == from(match_string, match_uri)

\* mutant: the key is stored as written, not lower-cased
child_key_raw(value) == value

\* the key of a child in the children map
child_key(value) == to_lowercase(value)

RECURSIVE insert(_, _, _, _, _)
insert(self, values, match_string, match_uri, match_type) ==
    LET value == child_key(Head(values))
        rest == Tail(values)
    IN  IF value \in DOMAIN self.children
        THEN IF rest = <<>>
             THEN [self EXCEPT !.children[value].matches =
                       @ \cup {Match(match_type, match_string, match_uri)}]
             ELSE [self EXCEPT !.children[value] =
                       insert(@, rest, match_string, match_uri, match_type)]
        ELSE IF rest = <<>>
             THEN [self EXCEPT !.children =
                       (value :> new_leaf(match_string, match_uri, match_type)) @@ @]
             ELSE [self EXCEPT !.children =
                       (value :> insert(default, rest, match_string, match_uri, match_type)) @@ @]

RECURSIVE traverse_internal_paths(_, _, _, _)
\* mutant: every prefix that is a path of the trie is pushed, also one with an
\* empty match set
traverse_internal_paths(self, values, matched_string_buffer, results) ==
    LET value == Head(values)
        key == to_lowercase(value)
    IN  IF key \in DOMAIN self.children
        THEN LET child == self.children[key]
                 buffer == Append(matched_string_buffer, value)
                 pushed == Append(results, <<buffer, child.matches>>)
             IN  IF Tail(values) # <<>>
                 THEN traverse_internal_paths(child, Tail(values), buffer, pushed)
                 ELSE pushed
        ELSE results

RECURSIVE traverse_internal(_, _, _, _)
traverse_internal(self, values, matched_string_buffer, results) ==
    LET value == Head(values)
        key == to_lowercase(value)
    IN  IF key \in DOMAIN self.children
        THEN LET child == self.children[key]
                 buffer == Append(matched_string_buffer, value)
                 pushed == IF child.matches # {}
                           THEN Append(results, <<buffer, child.matches>>)
                           ELSE results
             IN  IF Tail(values) # <<>>
                 THEN traverse_internal(child, Tail(values), buffer, pushed)
                 ELSE pushed
        ELSE results

\* Ok(vec) is the non-empty vec, Err is <<>>
traverse(self, values) == traverse_internal(self, values, <<>>, <<>>)

----------------------------------------------------------------------------
(* tree.rs: SearchTree::search *)

\* mutant: the windows hold one element more than the size asked for
par_windows_wide(v, size) ==
    [p \in 1..(IF Len(v) > size THEN Len(v) - size ELSE 0) |-> SubSeq(v, p, p + size)]

\* rayon par_windows / slice::windows: every contiguous window of `size` elements
par_windows(v, size) ==
    [p \in 1..(IF Len(v) >= size THEN Len(v) - size + 1 ELSE 0) |-> SubSeq(v, p, p + size - 1)]

RECURSIVE join(_, _)
\* [&str]::join(sep)
join(strs, sep) ==
    IF strs = <<>> THEN <<>>
    ELSE IF Len(strs) = 1 THEN strs[1]
    ELSE strs[1] \o sep \o join(Tail(strs), sep)

\* one output tuple (String, HashSet<Match>, usize, usize) for a traverse result
span_of(result, offsets, start) ==
    <<join(result[1], <<" ">>), result[2], start, offsets[Len(result[1])][2]>>

\* mutant: the end is taken at the candidate's index, not at its token count
select_All_idx(results, offsets, start) ==
    [i \in 1..Len(results) |->
        <<join(results[i][1], <<" ">>), results[i][2], start, offsets[i][2]>>]

select_All(results, offsets, start) ==
    [i \in 1..Len(results) |-> span_of(results[i], offsets, start)]

\* mutant: the first candidate, the shortest prefix, is taken
select_First(results, offsets, start) ==
    <<span_of(results[1], offsets, start)>>

select_Last(results, offsets, start) ==
    <<span_of(results[Len(results)], offsets, start)>>

RECURSIVE longest_loop(_, _, _)
\* the for loop of the Longest arm: keep the result with strictly more tokens
longest_loop(results, i, result) ==
    IF i > Len(results) THEN result
    ELSE longest_loop(results, i + 1,
                      IF Len(results[i][1]) > Len(result[1]) THEN results[i] ELSE result)

select_Longest(results, offsets, start) ==
    <<span_of(longest_loop(results, 1, <<<<>>, {}>>), offsets, start)>>

\* the spans one window contributes: the two filter_map and the map closure
window_spans(self, slice, offsets, result_selection) ==
    LET results == traverse(self, slice)
        start == offsets[1][1]
    IN  IF results = <<>> THEN <<>>
        ELSE CASE result_selection = "All" -> select_All(results, offsets, start)
               [] result_selection = "Last" -> select_Last(results, offsets, start)
               [] result_selection = "Longest" -> select_Longest(results, offsets, start)

RECURSIVE flatten_rev(_)
\* mutant: the per-window lists are concatenated from the last window to the
\* first
flatten_rev(vs) == IF vs = <<>> THEN <<>> ELSE flatten_rev(Tail(vs)) \o Head(vs)

RECURSIVE flatten(_)
flatten(vs) == IF vs = <<>> THEN <<>> ELSE Head(vs) \o flatten(Tail(vs))

RECURSIVE dedup_loop(_, _, _)
\* Vec::dedup_by_key(|el| el.3): an element is dropped when its key equals the
\* key of the last element kept
dedup_loop(v, i, kept) ==
    IF i > Len(v) THEN kept
    ELSE dedup_loop(v, i + 1,
                    IF v[i][4] = kept[Len(kept)][4] THEN kept ELSE Append(kept, v[i]))

RECURSIVE dedup_start_loop(_, _, _)
dedup_start_loop(v, i, kept) ==
    IF i > Len(v) THEN kept
    ELSE dedup_start_loop(v, i + 1,
                          IF v[i][3] = kept[Len(kept)][3] THEN kept ELSE Append(kept, v[i]))

\* mutant: the key is the start offset, el.2
dedup_by_start(v) == IF v = <<>> THEN <<>> ELSE dedup_start_loop(v, 2, <<v[1]>>)

\* mutant: the dedupe step is left out
no_dedup(v) == v

dedup_by_key(v) == IF v = <<>> THEN <<>> ELSE dedup_loop(v, 2, <<v[1]>>)

\* result_selection.unwrap_or(&ResultSelection::Longest)
default_result_selection == "Longest"

\* max_len.unwrap_or(5 as usize)
default_max_len == 5

\* mutant: the token and offset lists are not padded
search_unpadded(self, text, max_len, result_selection) ==
    LET selection == unwrap_or(result_selection, default_result_selection)
        len == unwrap_or(max_len, default_max_len)
        split == split_with_indices(text)
    IN  IF len = 0
        THEN [panic |-> TRUE, emitted |-> <<>>, results |-> <<>>]
        ELSE LET sw == par_windows(split[1], len)
                 ow == par_windows(split[2], len)
                 emitted == [p \in 1..Len(sw) |-> window_spans(self, sw[p], ow[p], selection)]
             IN  [panic |-> FALSE, emitted |-> emitted,
                  results |-> dedup_by_key(flatten(emitted))]

\* search(text, max_len, result_selection): panic is TRUE when the call panics
\* (a window size of 0), emitted holds the spans of each window in window order
search(self, text, max_len, result_selection) ==
    LET selection == unwrap_or(result_selection, default_result_selection)
        len == unwrap_or(max_len, default_max_len)
        split == split_with_indices(text)
        slices == split[1] \o [i \in 1..len |-> <<>>]
        offsets == split[2] \o [i \in 1..len |-> <<0, 0>>]
    IN  IF len = 0
        THEN [panic |-> TRUE, emitted |-> <<>>, results |-> <<>>]
        ELSE LET sw == par_windows(slices, len)
                 ow == par_windows(offsets, len)
                 emitted == [p \in 1..Len(sw) |-> window_spans(self, sw[p], ow[p], selection)]
             IN  [panic |-> FALSE, emitted |-> emitted,
                  results |-> dedup_by_key(flatten(emitted))]

----------------------------------------------------------------------------
(* State machine *)

ResultSelection == {"All", "Last", "Longest"}

NoOp == [kind |-> "init", panic |-> FALSE, row |-> None,
         text |-> <<>>, max_len |-> None, result_selection |-> None,
         emitted |-> <<>>, results |-> <<>>]

Init ==
    /\ tree = default
    /\ lines = {}
    /\ op = NoOp

\* one iteration of the for loop of load_lines; insert panics on an empty deque
LoadLine(taxon, uri, match_type) ==
    LET values == split_with_indices(taxon)[1]
    IN  /\ op.kind # "search"
        /\ ~op.panic
        /\ Cardinality(lines \cup {<<taxon, uri, match_type>>}) <= MaxLines
        /\ lines' = lines \cup {<<taxon, uri, match_type>>}
        /\ IF values = <<>>
           THEN /\ tree' = tree
                /\ op' = [NoOp EXCEPT !.kind = "load", !.panic = TRUE,
                                      !.row = Some(<<taxon, uri, match_type>>)]
           ELSE /\ tree' = insert(tree, values, taxon, uri, match_type)
                /\ op' = [NoOp EXCEPT !.kind = "load",
                                      !.row = Some(<<taxon, uri, match_type>>)]

Search(text, max_len, result_selection) ==
    LET r == search(tree, text, max_len, result_selection)
    IN  /\ op.kind # "search"
        /\ ~op.panic
        /\ op' = [NoOp EXCEPT !.kind = "search", !.panic = r.panic, !.text = text,
                              !.max_len = max_len, !.result_selection = result_selection,
                              !.emitted = r.emitted, !.results = r.results]
        /\ UNCHANGED <<tree, lines>>

\* the caller takes the returned Vec; a call that panicked never returns
Return ==
    /\ op.kind = "search"
    /\ ~op.panic
    /\ op' = NoOp
    /\ UNCHANGED <<tree, lines>>

MaxLens == {None} \cup {Some(n) : n \in 0..MaxWindow}

Selections == {None} \cup {Some(s) : s \in ResultSelection}

Next ==
    \/ \E row \in Rows : LoadLine(row[1], row[2], row[3])
    \/ \E text \in Texts, max_len \in MaxLens, sel \in Selections :
           Search(text, max_len, sel)
    \/ Return

Spec == Init /\ [][Next]_vars

\* a corpus with an entry of more tokens than the default max_len, loaded as
\* Full rows only
LongCorpus == {<<T_a, "u1">>, <<T_a6, "u6">>}

NextLong ==
    \/ \E c \in LongCorpus : LoadLine(c[1], c[2], "Full")
    \/ \E c \in LongCorpus, max_len \in MaxLens, sel \in Selections :
           Search(c[1], max_len, sel)
    \/ Return

SpecLong == Init /\ [][NextLong]_vars

----------------------------------------------------------------------------
(* util.rs: create_skip_grams *)

\* bounds of the skip-gram inputs
MaxEntryLen == 4

MaxSkips == 3

MaxMinLength == 3

\* mutant: the token at position 0 may be deleted as well
deleted_any(item) ==
    [i \in 1..Len(item) |-> SubSeq(item, 1, i - 1) \o SubSeq(item, i + 1, Len(item))]

\* the inner for loop: item without its element at i, for i in 1..l (0-based)
deleted_of(item) ==
    [i \in 1..(Len(item) - 1) |-> SubSeq(item, 1, i) \o SubSeq(item, i + 2, Len(item))]

\* item.len() > min_length as usize: a negative i32 becomes a usize above
\* every length
len_gt(item, min_length) == min_length >= 0 /\ Len(item) > min_length

RECURSIVE create_skip_grams(_, _, _)
create_skip_grams(items, max_skips, min_length) ==
    IF max_skips > 0 /\ \A k \in 1..Len(items) : len_gt(items[k], min_length)
    THEN LET deleted == flatten([k \in 1..Len(items) |-> deleted_of(items[k])])
         IN  deleted \o create_skip_grams(deleted, max_skips - 1, min_length)
    ELSE items

\* the tokens of the entries handed to create_skip_grams
SkipTokens == {<<"a">>, <<"b">>}

\* token sequences of 1 to MaxEntryLen tokens
Entries == UNION {[1..n -> SkipTokens] : n \in 1..MaxEntryLen}

InitSkip ==
    /\ tree = default
    /\ lines = {}
    /\ \E item \in Entries, max_skips \in (-1)..MaxSkips, min_length \in (-1)..MaxMinLength :
           op = [kind |-> "entry", item |-> item, max_skips |-> max_skips,
                 min_length |-> min_length, skip_grams |-> <<>>]

\* create_skip_grams(vec![item], max_skips, min_length)
CreateSkipGrams ==
    /\ op.kind = "entry"
    /\ op' = [op EXCEPT !.kind = "skip_grams",
                        !.skip_grams = create_skip_grams(<<op.item>>, op.max_skips,
                                                         op.min_length)]
    /\ UNCHANGED <<tree, lines>>

NextSkip == CreateSkipGrams

SpecSkip == InitSkip /\ [][NextSkip]_vars

----------------------------------------------------------------------------
(* util.rs: the recursion of create_skip_grams, one call per step *)

\* the calls a behaviour may nest before the model stops following it
MaxDepth == MaxSkips + 3

\* the lists handed to create_skip_grams: the empty list, one entry, two
\* entries of at most two tokens
SkipInputs ==
    {<<>>} \cup {<<e>> : e \in Entries}
           \cup {<<e1, e2>> : e1, e2 \in {e \in Entries : Len(e) <= 2}}

\* mutant: the recursive call is made with the same budget
same_skips(max_skips) == max_skips

\* the budget of the recursive call
next_skips(max_skips) == max_skips - 1

\* the condition of the if in the active call
skip_guard == op.budget > 0 /\ \A k \in 1..Len(op.args) : len_gt(op.args[k], op.min_length)

\* the first call is active: args and budget are its arguments, depth is the
\* number of nested calls, deleted the lists appended so far
InitSkipRec ==
    /\ tree = default
    /\ lines = {}
    /\ \E items \in SkipInputs, max_skips \in (-1)..MaxSkips, min_length \in (-1)..MaxMinLength :
           op = [kind |-> "call", items |-> items, max_skips |-> max_skips,
                 min_length |-> min_length, args |-> items, budget |-> max_skips,
                 depth |-> 1, deleted |-> <<>>, skip_grams |-> <<>>]

\* the then branch: build deleted and call create_skip_grams on it
RecursiveCall ==
    LET deleted == flatten([k \in 1..Len(op.args) |-> deleted_of(op.args[k])])
    IN  /\ op.kind = "call"
        /\ skip_guard
        /\ op.depth < MaxDepth
        /\ op' = [op EXCEPT !.args = deleted, !.budget = next_skips(@),
                            !.depth = @ + 1, !.deleted = @ \o deleted]
        /\ UNCHANGED <<tree, lines>>

\* the else branch: the innermost call returns its items and every caller
\* appends what it receives
ReturnItems ==
    /\ op.kind = "call"
    /\ ~skip_guard
    /\ op' = [op EXCEPT !.kind = "returned", !.skip_grams = op.deleted \o op.args]
    /\ UNCHANGED <<tree, lines>>

NextSkipRec == RecursiveCall \/ ReturnItems

SpecSkipRec == InitSkipRec /\ [][NextSkipRec]_vars

\* a call that is running takes its next step
SpecSkipRecFair == SpecSkipRec /\ WF_vars(NextSkipRec)

----------------------------------------------------------------------------
(* util.rs: CorpusFormat and RobustCorpusFormat *)

\* the values an option of a CorpusFormat takes; a String is its bytes
CommentOptions == {None, Some(<<"#">>), Some(<<"%">>), Some(<<>>)}

DelimiterOptions == {None, Some(<<",">>), Some(<<",", ";">>), Some(<<>>)}

QuoteOptions == {None, Some(<<"'">>), Some(<<"'", "'">>), Some(<<>>)}

BoolOptions == {None, Some(TRUE), Some(FALSE)}

IndexOptions == {None, Some(2)}

FormatStringOptions == {None, Some(<<"x", "{", "}">>), Some(<<"x", "%">>)}

FormatPatternOptions == {None, Some(<<"%">>)}

\* CorpusFormat::default(): every option unset
CorpusFormat_default ==
    [comment |-> None, delimiter |-> None, double_quote |-> None, flexible |-> None,
     has_header |-> None, quote |-> None, quoting |-> None, skip_lines |-> None,
     search_term_column_idx |-> None, label_column_idx |-> None,
     label_format_string |-> None, label_format_pattern |-> None]

RobustCorpusFormat_default ==
    [comment |-> Some("#"), delimiter |-> "\t", double_quote |-> FALSE, flexible |-> FALSE,
     has_header |-> FALSE, quote |-> "\"", quoting |-> TRUE, skip_lines |-> 0,
     search_term_column_idx |-> 0, label_column_idx |-> 1,
     label_format_string |-> None, label_format_pattern |-> <<"{", "}">>]

\* s.bytes().next()
first_byte(s) == IF s = <<>> THEN None ELSE Some(s[1])

\* Option::map_or
map_or(o, d, f(_)) == IF o = None THEN d ELSE f(o[1])

\* str::contains
contains(s, pattern) ==
    \E i \in 0..(Len(s) - Len(pattern)) : SubSeq(s, i + 1, i + Len(pattern)) = pattern

\* the fallback of format.quoting.unwrap_or(..)
quoting_fallback == FALSE

\* RobustCorpusFormat::try_from: ok is FALSE for Err, format is then None
try_from(format) ==
    LET delimiter == map_or(format.delimiter, Some("\t"), first_byte)
        quote == map_or(format.quote, Some("\""), first_byte)
        label_format_pattern ==
            unwrap_or(format.label_format_pattern,
                      RobustCorpusFormat_default.label_format_pattern)
    IN  IF delimiter = None \/ quote = None
        THEN [ok |-> FALSE, format |-> None]
        ELSE IF /\ format.label_format_string # None
                /\ ~contains(format.label_format_string[1], label_format_pattern)
        THEN [ok |-> FALSE, format |-> None]
        ELSE [ok |-> TRUE,
              format |-> Some(
                  [comment |-> map_or(format.comment, RobustCorpusFormat_default.comment,
                                      first_byte),
                   delimiter |-> delimiter[1],
                   double_quote |-> unwrap_or(format.double_quote,
                                              RobustCorpusFormat_default.double_quote),
                   flexible |-> unwrap_or(format.flexible, RobustCorpusFormat_default.flexible),
                   has_header |-> unwrap_or(format.has_header,
                                            RobustCorpusFormat_default.has_header),
                   quote |-> quote[1],
                   quoting |-> unwrap_or(format.quoting, quoting_fallback),
                   skip_lines |-> unwrap_or(format.skip_lines,
                                            RobustCorpusFormat_default.skip_lines),
                   search_term_column_idx |->
                       unwrap_or(format.search_term_column_idx,
                                 RobustCorpusFormat_default.search_term_column_idx),
                   label_column_idx |-> unwrap_or(format.label_column_idx,
                                                  RobustCorpusFormat_default.label_column_idx),
                   label_format_string |-> format.label_format_string,
                   label_format_pattern |-> label_format_pattern])]

\* a CorpusFormat as deserialized from the configuration
InitFormat ==
    /\ tree = default
    /\ lines = {}
    /\ \E comment \in CommentOptions, delimiter \in DelimiterOptions, quote \in QuoteOptions,
          quoting \in BoolOptions, flexible \in BoolOptions, index \in IndexOptions,
          label_format_string \in FormatStringOptions,
          label_format_pattern \in FormatPatternOptions :
           op = [kind |-> "format",
                 format |-> [CorpusFormat_default EXCEPT
                                !.comment = comment, !.delimiter = delimiter,
                                !.quote = quote, !.quoting = quoting,
                                !.flexible = flexible, !.has_header = flexible,
                                !.double_quote = quoting,
                                !.skip_lines = index, !.label_column_idx = index,
                                !.label_format_string = label_format_string,
                                !.label_format_pattern = label_format_pattern],
                 robust |-> [ok |-> FALSE, format |-> None]]

TryFrom ==
    /\ op.kind = "format"
    /\ op' = [op EXCEPT !.kind = "converted", !.robust = try_from(op.format)]
    /\ UNCHANGED <<tree, lines>>

NextFormat == TryFrom

SpecFormat == InitFormat /\ [][NextFormat]_vars

----------------------------------------------------------------------------
(* util.rs: read_csv and parse_files *)

\* the elements of a sequence
Range(f) == {f[i] : i \in DOMAIN f}

\* rows of a corpus file
MaxRows == 2

\* the rows of the files: a row is the list of its fields
FileRows ==
    {<<<<"a">>, <<"l", "1">>>>, <<<<"A">>, <<"l", "2">>>>, <<<<"b">>, <<"l", "3">>>>,
     <<<<"c">>>>, <<<<"d">>, <<"l", "4">>, <<"x">>>>}

\* the files: one that cannot be opened, and the files of 0 to MaxRows rows
Missing == [open |-> FALSE, rows |-> <<>>]

Files ==
    {Missing} \cup {[open |-> TRUE, rows |-> rows] :
                        rows \in UNION {[1..n -> FileRows] : n \in 0..MaxRows}}

\* the lists of files parse_files is given
FileLists ==
    {<<f>> : f \in Files}
        \cup {<<f, g>> : f \in Files, g \in {Missing, [open |-> TRUE, rows |-> <<<<<<"B">>, <<"l", "5">>>>>>]}}

FilterLists == {None, Some(<<>>), Some(<<<<"a">>>>), Some(<<<<"A">>, <<"c">>>>)}

RECURSIVE replace(_, _, _)
\* str::replace: every occurrence of a non-empty pattern, left to right
replace(s, pattern, by) ==
    IF Len(s) < Len(pattern) THEN s
    ELSE IF SubSeq(s, 1, Len(pattern)) = pattern
         THEN by \o replace(SubSeq(s, Len(pattern) + 1, Len(s)), pattern, by)
         ELSE <<Head(s)>> \o replace(Tail(s), pattern, by)

\* records() of the csv reader followed by filter_map(Result::ok): with
\* flexible = false a record whose field count differs from the first
\* record's is an error, and is dropped
ok_records(rows, flexible) ==
    SelectSeq(rows, LAMBDA row : flexible \/ Len(row) = Len(rows[1]))

\* the (search term, label) pair of a record
pair_of(row, format) ==
    <<row[format.search_term_column_idx + 1],
      IF format.label_format_string = None
      THEN row[format.label_column_idx + 1]
      ELSE replace(format.label_format_string[1], format.label_format_pattern,
                   row[format.label_column_idx + 1])>>

\* read_csv: status is "err" for an Err, "panic" when a record is indexed
\* past its last field, "ok" with the pairs otherwise
read_csv(file, format) ==
    IF ~file.open \/ ~try_from(format).ok
    THEN [status |-> "err", pairs |-> <<>>]
    ELSE LET robust == try_from(format).format[1]
             read == ok_records(file.rows, robust.flexible)
             records == SelectSeq(IF robust.has_header /\ read # <<>> THEN Tail(read) ELSE read,
                                  LAMBDA row : row # <<>>)
         IN  IF \E k \in 1..Len(records) :
                    \/ Len(records[k]) <= robust.search_term_column_idx
                    \/ Len(records[k]) <= robust.label_column_idx
             THEN [status |-> "panic", pairs |-> <<>>]
             ELSE [status |-> "ok",
                   pairs |-> [k \in 1..Len(records) |-> pair_of(records[k], robust)]]

\* mutant: the filter list is compared as given
filter_as_given(list) == Range(list)

\* the HashSet of the lower-cased elements of the filter list
filter_set(list) == {to_lowercase(e) : e \in Range(list)}

\* parse_files: the files are read by parallel workers and collected in the
\* order of the file list; one Err makes the whole call an Err
parse_files(files, format, filter_list) ==
    LET parsed == [k \in 1..Len(files) |-> read_csv(files[k], format)]
        filter == IF filter_list = None THEN {} ELSE filter_set(filter_list[1])
    IN  IF \E k \in 1..Len(files) : parsed[k].status = "panic"
        THEN [status |-> "panic", pairs |-> <<>>]
        ELSE IF \E k \in 1..Len(files) : parsed[k].status = "err"
        THEN [status |-> "err", pairs |-> <<>>]
        ELSE [status |-> "ok",
              pairs |-> SelectSeq(flatten([k \in 1..Len(files) |-> parsed[k].pairs]),
                                  LAMBDA pair : filter = {} \/ to_lowercase(pair[1]) \notin filter)]

InitRead ==
    /\ tree = default
    /\ lines = <<>>
    /\ \E files \in FileLists, flexible \in {None, Some(TRUE)},
          label_format_string \in {None, Some(<<"x", "{", "}">>)}, filter_list \in FilterLists :
           op = [kind |-> "files", files |-> files,
                 format |-> [CorpusFormat_default EXCEPT
                                !.flexible = flexible,
                                !.label_format_string = label_format_string],
                 filter_list |-> filter_list, status |-> "ok"]

\* let lines = parse_files(files, pb, format, filter_list)
ParseFiles ==
    LET r == parse_files(op.files, op.format, op.filter_list)
    IN  /\ op.kind = "files"
        /\ op' = [op EXCEPT !.kind = "parsed", !.status = r.status]
        /\ lines' = r.pairs
        /\ UNCHANGED tree

NextRead == ParseFiles

SpecRead == InitRead /\ [][NextRead]_vars

----------------------------------------------------------------------------
(* tree.rs: SearchTree::load *)

\* rows of a corpus handed to load in one behaviour
MaxCorpus == 2

L_acd == <<"a", " ", "c", "d">>
L_abcd == <<"a", "b", " ", "c", "d">>
L_x2 == <<"a", "b", "c", " ", "a", "b", "c">>
L_x3 == <<"a", "b", "c", " ", "a", "b", "c", " ", "a", "b", "c">>

\* the (search term, label) rows parse_files can return
LoadEntries ==
    {<<L_acd, "u1">>, <<L_abcd, "u2">>, <<L_x2, "u3">>, <<L_x3, "u4">>,
     <<T_Ba, "u5">>, <<T_dot, "u6">>}

\* the corpora: 1 to MaxCorpus rows in file order
LoadCorpora == UNION {[1..n -> LoadEntries] : n \in 1..MaxCorpus}

\* the padding symbol of the ngrams crate, U+2060, one character of 3 bytes
WORD_JOINER == "WJ"

\* str::len, the length in bytes
byte_len(s) == Len(s) + 2 * Cardinality({i \in 1..Len(s) : s[i] = WORD_JOINER})

\* ngrams(2).pad(): the bigrams of the tokens with one padding symbol on
\* either side
ngrams_pad(tokens) ==
    LET padded == <<<<WORD_JOINER>>>> \o tokens \o <<<<WORD_JOINER>>>>
    IN  [i \in 1..(Len(padded) - 1) |-> <<padded[i], padded[i + 1]>>]

\* the map closure of generate_ngrams for one line
ngrams_of(line) ==
    LET ngrams == ngrams_pad(split_with_indices(line[1])[1])
        kept == SelectSeq(ngrams, LAMBDA ngram : \A i \in 1..Len(ngram) : byte_len(ngram[i]) > 2)
    IN  [i \in 1..Len(kept) |-> <<join(kept[i], <<" ">>), line[2], "NGram">>]

generate_ngrams(rows) ==
    LET filtered == SelectSeq(rows, LAMBDA line : Len(split_with_indices(line[1])[1]) > 2)
    IN  flatten([k \in 1..Len(filtered) |-> ngrams_of(filtered[k])])

RECURSIVE split_space(_, _)
\* str::split(" "): part is the piece being read
split_space(s, part) ==
    IF s = <<>> THEN <<part>>
    ELSE IF Head(s) = " " THEN <<part>> \o split_space(Tail(s), <<>>)
    ELSE split_space(Tail(s), Append(part, Head(s)))

\* the lines generate_abbreviations keeps
abbrv_filtered(rows) ==
    SelectSeq(rows, LAMBDA line : Len(split_space(line[1], <<>>)) > 1)

\* head.chars().next().unwrap() panics on an empty first piece
abbrv_panics(rows) ==
    \E k \in 1..Len(abbrv_filtered(rows)) :
        split_space(abbrv_filtered(rows)[k][1], <<>>)[1] = <<>>

\* the map closure of generate_abbreviations for one line
abbrv_of(line) ==
    LET clone == split_space(line[1], <<>>)
        first_char == SubSeq(clone[1], 1, 1)
        abbrv == <<first_char>> \o Tail(clone)
    IN  <<join(abbrv, <<" ">>), line[2], "Abbreviated">>

generate_abbreviations(rows) ==
    [k \in 1..Len(abbrv_filtered(rows)) |-> abbrv_of(abbrv_filtered(rows)[k])]

RECURSIVE load_lines(_, _)
\* the for loop of load_lines over rows; st.inserted is the log of the insert
\* calls made, st.panic is set when insert is called with no token
load_lines(st, rows) ==
    IF rows = <<>> \/ st.panic THEN st
    ELSE LET row == Head(rows)
             values == split_with_indices(row[1])[1]
         IN  IF values = <<>>
             THEN [st EXCEPT !.panic = TRUE]
             ELSE load_lines([st EXCEPT !.tree = insert(@, values, row[1], row[2], row[3]),
                                        !.inserted = Append(@, row)],
                             Tail(rows))

\* load after parse_files: n-grams, then abbreviations, then the lines as Full
load(self, rows, gen_ngrams, gen_abbrv) ==
    LET s0 == [tree |-> self, inserted |-> <<>>, panic |-> FALSE]
        s1 == IF gen_ngrams THEN load_lines(s0, generate_ngrams(rows)) ELSE s0
        s2 == IF gen_abbrv /\ ~s1.panic
              THEN IF abbrv_panics(rows)
                   THEN [s1 EXCEPT !.panic = TRUE]
                   ELSE load_lines(s1, generate_abbreviations(rows))
              ELSE s1
    IN  load_lines(s2, [k \in 1..Len(rows) |-> <<rows[k][1], rows[k][2], "Full">>])

\* the state when load has the rows of the files: lines holds them
InitLoad ==
    /\ tree = default
    /\ lines \in LoadCorpora
    /\ \E gen_ngrams \in BOOLEAN, gen_abbrv \in BOOLEAN :
           op = [kind |-> "start", panic |-> FALSE, generate_ngrams |-> gen_ngrams,
                 generate_abbrv |-> gen_abbrv, inserted |-> <<>>,
                 text |-> <<>>, max_len |-> None, result_selection |-> None,
                 emitted |-> <<>>, results |-> <<>>]

Load ==
    LET r == load(tree, lines, op.generate_ngrams, op.generate_abbrv)
    IN  /\ op.kind = "start"
        /\ tree' = r.tree
        /\ op' = [op EXCEPT !.kind = "load", !.panic = r.panic, !.inserted = r.inserted]
        /\ UNCHANGED lines

\* a search on the index that load has built
SearchLoaded(text, max_len, result_selection) ==
    LET r == search(tree, text, max_len, result_selection)
    IN  /\ op.kind = "load"
        /\ ~op.panic
        /\ op' = [op EXCEPT !.kind = "search", !.panic = r.panic, !.text = text,
                            !.max_len = max_len, !.result_selection = result_selection,
                            !.emitted = r.emitted, !.results = r.results]
        /\ UNCHANGED <<tree, lines>>

ReturnLoaded ==
    /\ op.kind = "search"
    /\ ~op.panic
    /\ op' = [op EXCEPT !.kind = "load", !.text = <<>>, !.max_len = None,
                        !.result_selection = None, !.emitted = <<>>, !.results = <<>>]
    /\ UNCHANGED <<tree, lines>>

\* the texts searched after a load
LoadTexts == {L_acd, L_abcd, L_x2}

NextLoad ==
    \/ Load
    \/ \E text \in LoadTexts, max_len \in MaxLens, sel \in Selections :
           SearchLoaded(text, max_len, sel)
    \/ ReturnLoaded

SpecLoad == InitLoad /\ [][NextLoad]_vars

----------------------------------------------------------------------------
(* The index read as a flat map from token sequence to match set *)

RECURSIVE Lookup(_, _)
\* the match set stored under a key; {} when the key is absent
Lookup(self, key) ==
    IF key = <<>> THEN self.matches
    ELSE IF Head(key) \in DOMAIN self.children
         THEN Lookup(self.children[Head(key)], Tail(key))
         ELSE {}

Tokens(text) == split_with_indices(text)[1]

Offsets(text) == split_with_indices(text)[2]

\* the normalized token sequence: every token lower-cased
NormKey(tokens) == [i \in 1..Len(tokens) |-> to_lowercase(tokens[i])]

\* the k-th smallest element of a finite set of integers
Nth(S, k) == CHOOSE x \in S : Cardinality({y \in S : y < x}) = k - 1

Max(S) == CHOOSE x \in S : \A y \in S : y <= x

\* the arguments of the search that op records, defaults applied
OpLen == unwrap_or(op.max_len, default_max_len)

OpSelection == unwrap_or(op.result_selection, default_result_selection)

Searched == op.kind = "search" /\ ~op.panic

\* the padded token and offset lists of the searched text
PadTokens == Tokens(op.text) \o [i \in 1..OpLen |-> <<>>]

PadOffsets == Offsets(op.text) \o [i \in 1..OpLen |-> <<0, 0>>]

\* the windows start at every real token and at the first padding token
Windows == 1..(Len(Tokens(op.text)) + 1)

\* the first i tokens of the window starting at p
Prefix(p, i) == SubSeq(PadTokens, p, p + i - 1)

\* the lengths of the prefixes of window p that are stored keys
KeyLens(p) == {i \in 1..OpLen : Lookup(tree, NormKey(Prefix(p, i))) # {}}

\* the span of the prefix of length i of window p, with a given match set
SpanAt(p, i, matches) ==
    <<join(Prefix(p, i), <<" ">>), matches, PadOffsets[p][1], PadOffsets[p + i - 1][2]>>

Loaded == op.kind = "load" /\ ~op.panic

----------------------------------------------------------------------------
(* tree.rs: the parallel evaluation of the windows in SearchTree::search *)

\* workers of the pool
MaxWorkers == 2

\* the rows of the indexes searched
ParCorpora ==
    {<<<<T_a, "u1", "Full">>, <<T_aaa, "u4", "Full">>>>,
     <<<<T_aa, "u2", "Full">>, <<T_a, "u1", "Abbreviated">>>>,
     <<<<T_aa, "u2", "Full">>>>}

ParTexts == {T_aa, T_aaa}

\* the spans the closure chain yields for the window at position p
ParWindowSpans(p) ==
    window_spans(tree, par_windows(PadTokens, OpLen)[p], par_windows(PadOffsets, OpLen)[p],
                 OpSelection)

\* mutant: the per-window lists are taken in the order the windows finished
completion_order(finished, n) == finished

\* collect(): the positions whose lists are concatenated, in ascending window
\* position whatever the order in which the windows finished
collect_order(finished, n) == [k \in 1..n |-> k]

InitPar ==
    /\ \E rows \in ParCorpora :
           tree = load_lines([tree |-> default, inserted |-> <<>>, panic |-> FALSE], rows).tree
    /\ lines = {}
    /\ \E text \in ParTexts, max_len \in MaxLens \ {Some(0)}, sel \in Selections,
          workers \in 1..MaxWorkers :
           op = [kind |-> "windows", panic |-> FALSE, text |-> text, max_len |-> max_len,
                 result_selection |-> sel, workers |-> workers, running |-> {},
                 finished |-> <<>>,
                 emitted |-> [p \in 1..(Len(Tokens(text)) + 1) |-> <<>>],
                 results |-> <<>>]

\* a free worker takes a window that no worker has taken
StartWindow(p) ==
    /\ op.kind = "windows"
    /\ p \notin op.running
    /\ p \notin Range(op.finished)
    /\ Cardinality(op.running) < op.workers
    /\ op' = [op EXCEPT !.running = @ \cup {p}]
    /\ UNCHANGED <<tree, lines>>

\* a worker finishes its window
FinishWindow(p) ==
    /\ op.kind = "windows"
    /\ p \in op.running
    /\ op' = [op EXCEPT !.running = @ \ {p},
                        !.finished = Append(@, p),
                        !.emitted[p] = ParWindowSpans(p)]
    /\ UNCHANGED <<tree, lines>>

\* flatten().collect() and dedup_by_key once every window is finished
Collect ==
    LET order == collect_order(op.finished, Len(op.finished))
    IN  /\ op.kind = "windows"
        /\ Len(op.finished) = Cardinality(Windows)
        /\ op' = [op EXCEPT !.kind = "search",
                            !.results = dedup_by_key(flatten([k \in 1..Len(order) |->
                                                                op.emitted[order[k]]]))]
        /\ UNCHANGED <<tree, lines>>

NextPar ==
    \/ \E p \in Windows : StartWindow(p)
    \/ \E p \in Windows : FinishWindow(p)
    \/ Collect

SpecPar == InitPar /\ [][NextPar]_vars

----------------------------------------------------------------------------
(* Claims *)

\* C1: performing the same insert (tokens, search_term, label, match_type)
\* twice in a row yields the same index as performing it once: the second of
\* two identical consecutive loads leaves the index unchanged.
CE_C1 ==
    [][(op.kind = "load" /\ op'.kind = "load" /\ ~op'.panic /\ op'.row = op.row)
           => tree' = tree]_vars

\* C2: after insert(tokens, search_term, label, match_type), also when the key
\* did not exist before, the match set under the key contains a Match with
\* exactly the given match_type: a variant inserted as Abbreviated or NGram is
\* never stored as Full.
CE_C2 ==
    Loaded =>
        LET row == op.row[1]
        IN  Match(row[3], row[1], row[2]) \in Lookup(tree, NormKey(Tokens(row[1])))

\* C3: for every row (s, label) loaded as a Full entry with n >= 1 tokens, the
\* key stored for it is the normalized token sequence search computes for s,
\* and search(s, W, Last) with W >= n returns a span whose match set contains
\* the Full match (s, label).
Thm_C3 ==
    (op.kind # "search") =>
        \A row \in lines :
            (row[3] = "Full" /\ Tokens(row[1]) # <<>>) =>
                /\ Match_full(row[1], row[2]) \in Lookup(tree, NormKey(Tokens(row[1])))
                /\ \A max_len \in {m \in MaxLens : unwrap_or(m, default_max_len)
                                                           >= Len(Tokens(row[1]))} :
                       LET r == search(tree, row[1], max_len, Some("Last"))
                       IN  /\ ~r.panic
                           /\ \E i \in 1..Len(r.results) :
                                  Match_full(row[1], row[2]) \in r.results[i][2]

\* a Full row whose text has upper case and a separator other than a space has
\* been loaded after another row
Wit_C3 ==
    /\ Loaded
    /\ op.row[1] = <<T_Ba, "u3", "Full">>
    /\ Cardinality(lines) = 2

\* C4: under Last every window in which at least one prefix is a stored key
\* emits exactly one span, built from the longest prefix that is a stored key
\* and carrying the whole set stored under it; a window with no matching
\* prefix emits nothing.
Thm_C4 ==
    (Searched /\ op.result_selection = Some("Last")) =>
        /\ Len(op.emitted) = Cardinality(Windows)
        /\ \A p \in Windows :
               IF KeyLens(p) = {}
               THEN op.emitted[p] = <<>>
               ELSE LET longest == Prefix(p, Max(KeyLens(p)))
                    IN  /\ Len(op.emitted[p]) = 1
                        /\ op.emitted[p][1][1] = join(longest, <<" ">>)
                        /\ op.emitted[p][1][2] = Lookup(tree, NormKey(longest))

\* a Last search with a window that has two matching prefixes and a window of
\* real tokens that has none
Wit_C4 ==
    /\ Searched
    /\ op.result_selection = Some("Last")
    /\ \E p \in Windows : Cardinality(KeyLens(p)) >= 2
    /\ \E p \in 1..Len(Tokens(op.text)) : KeyLens(p) = {}

\* the Full matches of a set when it has any, else the whole set
PreferFull(matches) ==
    IF \E m \in matches : m.match_type = "Full"
    THEN {m \in matches : m.match_type = "Full"}
    ELSE matches

\* C5: under the third policy (the default one, LastPreferFull in the claim,
\* Longest in the code) the span of a window is built from the longest matching
\* prefix, and its match set is the Full matches of the stored set when there
\* are any, else the whole stored set.
CE_C5 ==
    (Searched /\ OpSelection = "Longest") =>
        \A p \in Windows :
            KeyLens(p) # {} =>
                /\ Len(op.emitted[p]) = 1
                /\ op.emitted[p][1][1] = join(Prefix(p, Max(KeyLens(p))), <<" ">>)
                /\ op.emitted[p][1][2] =
                       PreferFull(Lookup(tree, NormKey(Prefix(p, Max(KeyLens(p))))))

\* C6: under All the spans of a window correspond one to one, in increasing
\* prefix length, to the prefixes of the window that are stored keys; each
\* carries the set stored under its prefix, the start offset of the window and
\* the end offset of the last token of the prefix.
Thm_C6 ==
    (Searched /\ op.result_selection = Some("All")) =>
        /\ Len(op.emitted) = Cardinality(Windows)
        /\ \A p \in Windows :
               /\ Len(op.emitted[p]) = Cardinality(KeyLens(p))
               /\ \A k \in 1..Cardinality(KeyLens(p)) :
                      LET i == Nth(KeyLens(p), k)
                      IN  op.emitted[p][k] =
                              SpanAt(p, i, Lookup(tree, NormKey(Prefix(p, i))))

\* an All search with a window that has two candidates, the second of them
\* longer than two tokens, and a later window with a candidate
Wit_C6 ==
    /\ Searched
    /\ op.result_selection = Some("All")
    /\ \E p \in Windows :
           /\ Cardinality(KeyLens(p)) >= 2
           /\ Max(KeyLens(p)) > Cardinality(KeyLens(p))
           /\ \E q \in Windows : q > p /\ KeyLens(q) # {}

RECURSIVE TreeDepth(_)
\* the length of the longest key of the index
TreeDepth(self) ==
    IF DOMAIN self.children = {} THEN 0
    ELSE 1 + Max({TreeDepth(self.children[k]) : k \in DOMAIN self.children})

\* search(text, tree_depth, LastPreferFull) as the claim reads it
SearchDepthPreferFull ==
    IF TreeDepth(tree) = 0 THEN <<>>
    ELSE LET r == search(tree, op.text, Some(TreeDepth(tree)), Some("Last")).results
         IN  [i \in 1..Len(r) |-> <<r[i][1], PreferFull(r[i][2]), r[i][3], r[i][4]>>]

\* C7: search without max_len and without result_selection returns what
\* search returns with max_len = tree_depth and policy LastPreferFull, so a
\* stored key of any length that occurs in the text is reported.
CE_C7 ==
    (Searched /\ op.max_len = None /\ op.result_selection = None) =>
        op.results = SearchDepthPreferFull

\* C8: search returns the empty list, without failing, whenever max_len is 0
\* or the text yields no token, for every index and every policy.
CE_C8 ==
    (op.kind = "search" /\ (op.max_len = Some(0) \/ Tokens(op.text) = <<>>)) =>
        (~op.panic /\ op.results = <<>>)

\* the positions of the emitted spans that open a run of equal end offsets
RunHeads(e) == {i \in 1..Len(e) : i = 1 \/ e[i][4] # e[i - 1][4]}

\* C9: the returned list is the concatenation of the per-window spans in
\* window order without the spans whose end equals the end of the span kept
\* before them: the first span of every run of equal ends, in order.
Thm_C9 ==
    Searched =>
        LET e == flatten(op.emitted)
        IN  /\ Len(op.results) = Cardinality(RunHeads(e))
            /\ \A k \in 1..Cardinality(RunHeads(e)) :
                   op.results[k] = e[Nth(RunHeads(e), k)]

\* a search whose dedupe step dropped a span and kept at least two
Wit_C9 ==
    /\ Searched
    /\ Len(op.results) >= 2
    /\ Len(op.results) < Len(flatten(op.emitted))

Slice(text, start, end) == SubSeq(text, start + 1, end)

\* C11: for every span (matched, matches, start, end) returned by search on a
\* text t, 0 <= start < end <= length(t), and t[start..end] begins with the
\* first matched token, ends with the last character of the last matched token
\* and holds exactly the matched tokens.
CE_C11 ==
    Searched =>
        \A k \in 1..Len(op.results) :
            LET r == op.results[k]
            IN  /\ 0 <= r[3] /\ r[3] < r[4] /\ r[4] <= Len(op.text)
                /\ op.text[r[3] + 1] \notin SPLIT_PATTERN
                /\ op.text[r[4]] \notin SPLIT_PATTERN
                /\ join(Tokens(Slice(op.text, r[3], r[4])), <<" ">>) = r[1]

\* i real tokens of the searched text, from token position p
RealPrefix(p, i) == SubSeq(Tokens(op.text), p, p + i - 1)

\* the lengths of the stored keys that occur in the searched text at token
\* position p, whatever the window size
AllKeyLens(p) ==
    {i \in 1..(Len(Tokens(op.text)) - p + 1) : Lookup(tree, NormKey(RealPrefix(p, i))) # {}}

\* the number of tokens a span covers
TokenCount(span) == Len(Tokens(span[1]))

\* C12: no span of search(text, W, policy) covers more than W tokens, and under
\* Last the span of the window at a token position is built from the longest
\* stored key of at most W tokens that occurs there.
Thm_C12 ==
    Searched =>
        /\ \A p \in 1..Len(op.emitted) : \A k \in 1..Len(op.emitted[p]) :
               TokenCount(op.emitted[p][k]) <= OpLen
        /\ \A k \in 1..Len(op.results) : TokenCount(op.results[k]) <= OpLen
        /\ (OpSelection = "Last") =>
               \A p \in 1..Len(Tokens(op.text)) :
                   LET within == {i \in AllKeyLens(p) : i <= OpLen}
                   IN  IF within = {}
                       THEN op.emitted[p] = <<>>
                       ELSE op.emitted[p] =
                                <<SpanAt(p, Max(within),
                                         Lookup(tree, NormKey(RealPrefix(p, Max(within)))))>>

\* a Last search at a position where a stored key longer than W and a stored
\* key of at most W tokens both occur
Wit_C12 ==
    /\ Searched
    /\ OpSelection = "Last"
    /\ \E p \in 1..Len(Tokens(op.text)) :
           /\ \E i \in AllKeyLens(p) : i > OpLen
           /\ \E i \in AllKeyLens(p) : i <= OpLen

\* C13: for a text with n >= 1 tokens and any W >= 1, also W > n, every token
\* position is the start of a window, and a stored key of at most W tokens
\* that occurs at a position is a candidate of the window there: the window
\* emits a span starting at that token, and under All a span for that key.
Thm_C13 ==
    (Searched /\ Tokens(op.text) # <<>>) =>
        /\ Len(op.emitted) >= Len(Tokens(op.text))
        /\ \A p \in 1..Len(Tokens(op.text)) :
               \A i \in {j \in AllKeyLens(p) : j <= OpLen} :
                   /\ op.emitted[p] # <<>>
                   /\ op.emitted[p][1][3] = Offsets(op.text)[p][1]
                   /\ (OpSelection = "All") =>
                          \E k \in 1..Len(op.emitted[p]) :
                              op.emitted[p][k][1] = join(RealPrefix(p, i), <<" ">>)

\* a search with a window size above the token count of a text of two or more
\* tokens, in which a stored key occurs at the last token
Wit_C13 ==
    /\ Searched
    /\ Len(Tokens(op.text)) >= 2
    /\ OpLen > Len(Tokens(op.text))
    /\ AllKeyLens(Len(Tokens(op.text))) # {}
    /\ op.emitted[Len(Tokens(op.text))] # <<>>

RECURSIVE IsSubseq(_, _)
\* s is e without some of its elements
IsSubseq(s, e) ==
    IF s = <<>> THEN TRUE
    ELSE IF e = <<>> THEN FALSE
    ELSE IF Head(s) = Head(e) THEN IsSubseq(Tail(s), Tail(e))
    ELSE IsSubseq(s, Tail(e))

\* create_skip_grams has run on an entry of more than min_length tokens
EntryQualifies ==
    /\ op.kind = "skip_grams"
    /\ op.max_skips >= 0
    /\ Len(op.item) > op.min_length

\* a sequence keeps token 0 of the entry and is the entry without at most
\* max_skips tokens
KeepsHeadWithinSkips(s) ==
    /\ s # <<>>
    /\ s[1] = op.item[1]
    /\ IsSubseq(Tail(s), Tail(op.item))
    /\ Len(op.item) - Len(s) <= op.max_skips

OneDeletion(S, min_length) ==
    UNION {{SubSeq(s, 1, i) \o SubSeq(s, i + 2, Len(s)) : i \in 1..(Len(s) - 1)} :
               s \in {t \in S : Len(t) > min_length}}

RECURSIVE Reach(_, _, _)
\* the sequences reached from S with exactly d further deletions
Reach(S, d, min_length) ==
    IF d = 0 THEN S ELSE Reach(OneDeletion(S, min_length), d - 1, min_length)

\* the set C15 describes: the sequences reached from the entry by 1 to
\* max_skips deletions
ReachedBySkips ==
    UNION {Reach({op.item}, d, op.min_length) : d \in 1..op.max_skips}

\* C15: for an entry of more than min_length tokens and max_skips >= 1, the
\* set of the returned sequences is the set of the sequences reached from the
\* entry by 1 to max_skips deletions of one token at a position >= 1, where a
\* sequence of at most min_length tokens is not reduced further.
CE_C15 ==
    (op.kind = "skip_grams" /\ op.max_skips >= 1 /\ Len(op.item) > op.min_length) =>
        Range(op.skip_grams) = ReachedBySkips

\* the equality of C15 for the entries with min_length >= 0
SkipGramsExactFromZero ==
    (op.kind = "skip_grams" /\ op.max_skips >= 1 /\ Len(op.item) > op.min_length
        /\ op.min_length >= 0) =>
        Range(op.skip_grams) = ReachedBySkips

\* the key an entry or a variant is stored under
KeyOf(text) == NormKey(Tokens(text))

\* C16: inserting under a key that holds matches adds to the set, so all match
\* types coexist: when a derived variant of one entry has the Full key of
\* another entry, a Last search for that key returns a span holding the Full
\* match of the one and a match of the derived type for the other.
CE_C16 ==
    (Searched /\ OpSelection = "Last" /\ OpLen >= Len(Tokens(op.text))) =>
        \A i \in DOMAIN op.inserted, j \in DOMAIN lines :
            (/\ op.inserted[i][3] # "Full"
             /\ op.inserted[i][2] # lines[j][2]
             /\ lines[j][1] = op.text
             /\ KeyOf(op.inserted[i][1]) = KeyOf(op.text)) =>
                \E k \in 1..Len(op.results) :
                    /\ Match_full(lines[j][1], lines[j][2]) \in op.results[k][2]
                    /\ \E m \in op.results[k][2] :
                           /\ m.match_type = op.inserted[i][3]
                           /\ m.match_uri = op.inserted[i][2]

\* the configurations of the abbreviation rule the claim ranges over
AbbrvMaxIndexes == {-1, 0, 1}

AbbrvMinSuffixes == {0, 2}

RECURSIVE SumLen(_)
\* the total number of characters of a sequence of tokens
SumLen(tokens) == IF tokens = <<>> THEN 0 ELSE Len(Head(tokens)) + SumLen(Tail(tokens))

\* the variants C17 describes for a token sequence: token i replaced by its
\* first character, for the indexes i both bounds allow
ClaimedAbbrv(tokens, max_index, min_suffix) ==
    LET len == Len(tokens)
        last == IF max_index < 0 \/ max_index > len - 1 THEN len - 1 ELSE max_index
        allowed == {i \in 0..last :
                       min_suffix <= 0 \/ SumLen(SubSeq(tokens, i + 2, len)) >= min_suffix}
    IN  IF len > 1
        THEN {[tokens EXCEPT ![i + 1] = SubSeq(@, 1, 1)] : i \in allowed}
        ELSE {}

\* the token sequences of the Abbreviated rows generated for one line
GeneratedAbbrv(line) ==
    {Tokens(row[1]) : row \in Range(generate_abbreviations(<<line>>))}

\* C17: with abbreviations enabled, the Abbreviated variants generated for an
\* entry are exactly the sequences with token i replaced by its first
\* character, one for each i in 0..=min(len-1, abbrv_max_index) (every i when
\* abbrv_max_index < 0) with at least abbrv_min_suffix_length characters after
\* it; a one-token entry yields none.
CE_C17 ==
    (Loaded /\ op.generate_abbrv) =>
        \A j \in DOMAIN lines, max_index \in AbbrvMaxIndexes, min_suffix \in AbbrvMinSuffixes :
            GeneratedAbbrv(lines[j]) = ClaimedAbbrv(Tokens(lines[j][1]), max_index, min_suffix)

\* C18: every Match stored for a derived variant (an insert with a match type
\* other than Full) carries the search term and the label of a source row.
CE_C18 ==
    Loaded =>
        \A i \in DOMAIN op.inserted :
            (op.inserted[i][3] # "Full") =>
                \A m \in Lookup(tree, KeyOf(op.inserted[i][1])) :
                    (m.match_uri = op.inserted[i][2]) =>
                        \E j \in DOMAIN lines :
                            lines[j] = <<m.match_string, m.match_uri>>

\* the place of a match type in the build order C19 describes; the n-grams
\* of the code stand where the claim has the skip-grams
BuildRank(match_type) ==
    CASE match_type = "Full" -> 0
      [] match_type = "NGram" -> 1
      [] match_type = "Abbreviated" -> 2

\* C19: during a build every Full entry is inserted before any skip-gram
\* variant, and every skip-gram variant before any abbreviation variant.
CE_C19 ==
    (op.kind = "load") =>
        \A i, j \in DOMAIN op.inserted :
            i < j => BuildRank(op.inserted[i][3]) <= BuildRank(op.inserted[j][3])

\* the orderings of a finite set of rows
Orderings(S) == {s \in [1..Cardinality(S) -> S] : Range(s) = S}

\* the index after the inserts of a sequence of rows into the empty index
InsertAll(rows) ==
    load_lines([tree |-> default, inserted |-> <<>>, panic |-> FALSE], rows).tree

\* C20: the index does not depend on the order of the inserts: any two
\* orderings of the rows loaded so far (those with a token) give the same
\* keys and the same match set under every key.
CE_C20 ==
    LET rows == {row \in lines : Tokens(row[1]) # <<>>}
    IN  \A s1, s2 \in Orderings(rows) : InsertAll(s1) = InsertAll(s2)

\* C26: the spans returned by search are ordered by non-decreasing start
\* offset, for every index, text, max_len and policy.
Thm_C26 ==
    Searched =>
        \A i, j \in 1..Len(op.results) :
            i < j => op.results[i][3] <= op.results[j][3]

\* a search that returned spans with different starts and two spans with the
\* same start
Wit_C26 ==
    /\ Searched
    /\ \E i, j \in 1..Len(op.results) : op.results[i][3] < op.results[j][3]
    /\ \E i, j \in 1..Len(op.results) : i # j /\ op.results[i][3] = op.results[j][3]

RECURSIVE FlatMap(_, _)
\* the index as a flat map: the set of the pairs (key, match set) of the keys
\* that hold a match, key being the path that leads to self
FlatMap(self, key) ==
    (IF self.matches # {} THEN {<<key, self.matches>>} ELSE {})
        \cup UNION {FlatMap(self.children[k], Append(key, k)) : k \in DOMAIN self.children}

\* the match set the flat map holds for a key, {} for a key it does not hold
FlatGet(map, key) ==
    IF \E e \in map : e[1] = key
    THEN (CHOOSE e \in map : e[1] = key)[2]
    ELSE {}

\* the candidates of a window by probing the flat map with each prefix, in
\* increasing length
FlatCandidates(map, window) ==
    LET hits == {i \in 1..Len(window) : FlatGet(map, NormKey(SubSeq(window, 1, i))) # {}}
    IN  [k \in 1..Cardinality(hits) |->
            <<SubSeq(window, 1, Nth(hits, k)),
              FlatGet(map, NormKey(SubSeq(window, 1, Nth(hits, k))))>>]

\* the windows of W tokens of the searched text, padding included
OpWindows == par_windows(PadTokens, OpLen)

\* C27: for every window of W tokens, the candidate list of the traversal of
\* the trie is the list obtained from the flat map by probing each prefix of
\* the window in increasing length and keeping the non-empty sets.
Thm_C27 ==
    Searched =>
        \A p \in 1..Len(OpWindows) :
            traverse(tree, OpWindows[p]) = FlatCandidates(FlatMap(tree, <<>>), OpWindows[p])

\* a window whose prefix of one token is only an interior path and whose
\* longer prefix is a key, and a window with two candidates
Wit_C27 ==
    /\ Searched
    /\ \E p \in 1..Len(OpWindows) :
           /\ Len(traverse(tree, OpWindows[p])) = 1
           /\ Len(traverse(tree, OpWindows[p])[1][1]) >= 2
    /\ \E p \in 1..Len(OpWindows) : Len(traverse(tree, OpWindows[p])) >= 2

\* C25: search returns the same list under every scheduling of the window
\* evaluation and every worker count: whatever the order in which the windows
\* finish, the collected list is the list of the windows in ascending
\* position with the dedupe step applied, the value search has for the index,
\* text, max_len and policy.
Thm_C25 ==
    (op.kind = "search" /\ "finished" \in DOMAIN op) =>
        /\ op.results = dedup_by_key(flatten([p \in Windows |-> ParWindowSpans(p)]))
        /\ op.results = search(tree, op.text, op.max_len, op.result_selection).results

\* the windows finished out of order, the later window with a span before
\* the earlier one with a span, and the dedupe step dropped a span
Wit_C25 ==
    /\ op.kind = "search"
    /\ "finished" \in DOMAIN op
    /\ \E i, j \in 1..Len(op.finished) :
           /\ i < j
           /\ op.finished[i] > op.finished[j]
           /\ op.emitted[op.finished[i]] # <<>>
           /\ op.emitted[op.finished[j]] # <<>>
    /\ Len(op.results) < Len(flatten(op.emitted))
    /\ Len(op.results) >= 2

\* C28: create_skip_grams never returns the input token sequence itself as a
\* variant, and yields no variant when max_skips <= 0 or when the entry has
\* no more than min_length tokens.
CE_C28 ==
    (op.kind = "skip_grams") =>
        /\ op.item \notin Range(op.skip_grams)
        /\ (op.max_skips <= 0 \/ Len(op.item) <= op.min_length) => op.skip_grams = <<>>

\* the rows of the corpus that yield a token
WithTokens(rows) == SelectSeq(rows, LAMBDA line : Tokens(line[1]) # <<>>)

\* C29: a build from rows that include a search term yielding zero tokens
\* completes without failure, and its index is the index built from the other
\* rows alone.
CE_C29 ==
    (op.kind = "load" /\ WithTokens(lines) # lines) =>
        /\ ~op.panic
        /\ tree = load(default, WithTokens(lines), op.generate_ngrams, op.generate_abbrv).tree

\* the bound of C30 on the number of nested calls
DepthBound == (IF op.max_skips > 0 THEN op.max_skips ELSE 0) + 1

\* C30: create_skip_grams terminates for every input list, every max_skips
\* and every min_length, with at most max(max_skips, 0) + 1 nested calls, and
\* what it returns is the value of the function.
Thm_C30 ==
    /\ [](op.depth <= DepthBound)
    /\ []((op.kind = "returned") =>
              op.skip_grams = create_skip_grams(op.items, op.max_skips, op.min_length))
    /\ <>(op.kind = "returned")

\* a call on a non-empty list that returned from the deepest nesting the
\* bound allows, three calls or more
Wit_C30 ==
    /\ op.kind = "returned"
    /\ op.items # <<>>
    /\ op.depth = DepthBound
    /\ op.depth >= 3

\* the options of a CorpusFormat
FormatOptions == DOMAIN CorpusFormat_default

\* C23: the conversion of a CorpusFormat gives every unset option its
\* documented default, so the conversion of the all-unset format is
\* RobustCorpusFormat::default().
CE_C23 ==
    (op.kind = "converted" /\ op.robust.ok) =>
        /\ \A f \in FormatOptions :
               (op.format[f] = None) => op.robust.format[1][f] = RobustCorpusFormat_default[f]
        /\ (op.format = CorpusFormat_default) =>
               op.robust.format[1] = RobustCorpusFormat_default

\* C23 without the quoting option: every other unset option gets its default
UnsetOptionsButQuoting ==
    (op.kind = "converted" /\ op.robust.ok) =>
        \A f \in FormatOptions \ {"quoting"} :
            (op.format[f] = None) => op.robust.format[1][f] = RobustCorpusFormat_default[f]

\* the conditions under which C24 has the conversion fail
ClaimedConfigError ==
    \/ op.format.delimiter # None /\ Len(op.format.delimiter[1]) # 1
    \/ op.format.quote # None /\ Len(op.format.quote[1]) # 1
    \/ /\ op.format.label_format_string # None
       /\ ~contains(op.format.label_format_string[1],
                    unwrap_or(op.format.label_format_pattern, <<"{", "}">>))

\* C24: the conversion fails if and only if the given delimiter is not
\* exactly one byte, or the given quote is not exactly one byte, or
\* label_format_string is set and does not contain label_format_pattern.
CE_C24 ==
    (op.kind = "converted") => (~op.robust.ok <=> ClaimedConfigError)

\* the rows read_csv parses from the files of the call, in file order
ParsedRows ==
    flatten([k \in 1..Len(op.files) |-> read_csv(op.files[k], op.format).pairs])

\* the positions of the parsed rows that a set of filtered terms lets through
Kept(filtered) == {k \in 1..Len(ParsedRows) : to_lowercase(ParsedRows[k][1]) \notin filtered}

\* the parsed rows at a set of positions, in their order
RowsAt(positions) == [k \in 1..Cardinality(positions) |-> ParsedRows[Nth(positions, k)]]

\* the elements of the filter list of the call
GivenFilter == IF op.filter_list = None THEN {} ELSE Range(op.filter_list[1])

\* C21 as stated: parse_files returns, in their order, exactly the parsed
\* rows whose lower-cased search term is not an element of the filter list.
CE_C21 ==
    (op.kind = "parsed" /\ op.status = "ok") => lines = RowsAt(Kept(GivenFilter))

\* C21 amended: parse_files returns, in their order, exactly the parsed rows
\* whose lower-cased search term is not the lower-cased form of an element of
\* the filter list; with no filter list or an empty one, every parsed row.
Thm_C21 ==
    (op.kind = "parsed" /\ op.status = "ok") =>
        /\ lines = RowsAt(Kept({to_lowercase(e) : e \in GivenFilter}))
        /\ (GivenFilter = {}) => lines = ParsedRows

\* a call on two files that dropped a row for a filter element written in
\* upper case and returned rows of both files
Wit_C21 ==
    /\ op.kind = "parsed"
    /\ op.status = "ok"
    /\ Len(op.files) = 2
    /\ Len(lines) >= 2
    /\ Len(lines) < Len(ParsedRows)
    /\ <<"A">> \in GivenFilter
    /\ lines[Len(lines)][1] = <<"B">>

\* a row of a file that cannot be mapped to (search term, label): fewer
\* columns than the column indexes need, or, when flexible is not set, a
\* column count other than the first row's
Malformed(rows, row) ==
    \/ Len(row) < 2
    \/ op.format.flexible = None /\ Len(row) # Len(rows[1])

\* C22: when a file holds a row that cannot be mapped to (search term,
\* label), loading does not end in success.
CE_C22 ==
    (/\ op.kind = "parsed"
     /\ \E k \in 1..Len(op.files) :
            \E i \in 1..Len(op.files[k].rows) :
                Malformed(op.files[k].rows, op.files[k].rows[i]))
        => op.status # "ok"

====
